---- MODULE Spec2Model ----
(***************************************************************************)
(* Smart Context plugin: the embedding cache (embedding_cache.py), the     *)
(* pipeline.context subscriber of main.py that filters ctx.history by      *)
(* cosine similarity to the active topics, the pipeline.output subscriber  *)
(* that extracts topics in a background task, and the commands set_filter  *)
(* and set_similarity_mode.                                                *)
(*                                                                         *)
(* Awaits (memory.load_chat, memory.save_chat, llm.embed, llm.complete)    *)
(* are the only suspension points; the code between two awaits is one      *)
(* atomic action.                                                          *)
(*                                                                         *)
(* Vectors have integer components and integer norms and thresholds are    *)
(* fractions, so every cosine and every comparison is exact; on these      *)
(* values the float arithmetic of the code gives the same comparisons.     *)
(***************************************************************************)
EXTENDS Integers, Sequences, FiniteSets, TLC

VARIABLES
    active_topics,          \* Plugin.active_topics : set of labels
    embedding_search,       \* Plugin.embedding_search : bool
    similarity_threshold,   \* Plugin.similarity_threshold, a fraction
    chat_topics,            \* "topics" of the persisted chat document
    cache_file,             \* .memory/{chat_id}.embeddings.json
    provider_silent,        \* the embedding provider answers no call
    pc,                     \* position of the _on_pipeline_context run
    ctx_chat_id,            \* ctx.metadata.get("chat_id")
    ctx_history,            \* ctx.history, rewritten by the hook
    hist_in,                \* ctx.history as the hook received it
    load_status,            \* how memory.load_chat ended for this run
    embed_failed,           \* an llm.embed call of this run raised
    sticky_ids,             \* sticky_ids resolved by the hook
    embed_req,              \* labels sent to llm.embed for the topics
    topic_embeddings,       \* label -> vector, as the provider returned
    cache_data,             \* EmbeddingCache._data of the run's cache
    need_embed,             \* messages that missed the cache
    cached,                 \* message id -> embedding used for scoring
    included,               \* result of _compute_relevant_ids
    scored,                 \* the run reached the scoring loop
    inst,                   \* EmbeddingCache instances driven directly
    put_log,                \* the set() calls made on those instances
    last_get,               \* the get() made since the last set(), if any
    chat_messages,          \* "messages" of the persisted chat document
    runs,                   \* the _run_topic_extraction tasks
    started,                \* number of extraction tasks created so far
    out_pc,                 \* position of the last _on_pipeline_output call
    current_chat_id,        \* Plugin.current_chat_id
    events,                 \* what self.emit has sent, in order
    last_call,              \* the last command call and what it returned
    hl_tasks,               \* the _emit_highlight_ids tasks created
    gt_call,                \* the get_topics call in progress, if any
    cos,                    \* a pair of vectors and their similarities
    panel                   \* the panel's script state and its traffic

vars == <<active_topics, embedding_search, similarity_threshold, chat_topics,
          cache_file, provider_silent, pc, ctx_chat_id, ctx_history, hist_in,
          load_status, embed_failed, sticky_ids, embed_req, topic_embeddings,
          cache_data, need_embed, cached, included, scored,
          inst, put_log, last_get,
          chat_messages, runs, started, out_pc,
          current_chat_id, events, last_call, hl_tasks, gt_call, cos,
          panel>>

plugin_vars == <<active_topics, embedding_search, similarity_threshold>>
run_vars == <<pc, ctx_chat_id, ctx_history, hist_in, load_status,
              embed_failed, sticky_ids, embed_req, topic_embeddings,
              cache_data, need_embed, cached, included, scored>>
api_vars == <<inst, put_log, last_get>>
ext_vars == <<chat_messages, runs, started, out_pc>>
cmd_vars == <<current_chat_id, events, last_call, hl_tasks>>
aux_vars == <<gt_call, cos, panel>>

(***************************************************************************)
(* Bounds                                                                  *)
(***************************************************************************)
MaxHist == 2
MaxPuts == 2
MaxExtractions == 2
MaxStore == 2
MaxCalls == 2

(***************************************************************************)
(* Input domains                                                           *)
(***************************************************************************)
None == <<>>
MsgIds == {"m1", "m2", "m3"}
Contents == {"a", "b", "c"}
Labels == {"A", "B"}
\* vectors with an integer norm, so that math.sqrt is exact on them
Vectors == {<<1, 0>>, <<3, 4>>, <<0, 0>>}
\* similarity_threshold as a fraction: 0.0, 0.4 (the default), 0.6, 1.0
Thresholds == {<<0, 1>>, <<2, 5>>, <<3, 5>>, <<1, 1>>}

Messages == [id : MsgIds, content : Contents]
Histories ==
    {h \in UNION {[1..n -> Messages] : n \in 0..MaxHist} :
        \A i, j \in DOMAIN h : i # j => h[i].id # h[j].id}

Range(s) == {s[i] : i \in DOMAIN s}
EmptyDict == [k \in {} |-> None]

(***************************************************************************)
(* The embedding provider behind LLMService.embed: one vector per text.    *)
(***************************************************************************)
Embedding(text) ==
    CASE text \in {"a", "A"} -> <<1, 0>>
      [] text \in {"b", "B"} -> <<3, 4>>
      [] OTHER -> <<0, 0>>

(***************************************************************************)
(* _cosine_similarity (main.py): dot / (norm_a * norm_b), 0.0 on a zero    *)
(* norm. The value is kept as the exact fraction <<num, den>>, den > 0.    *)
(***************************************************************************)
Dot(a, b) == a[1] * b[1] + a[2] * b[2]
Sqrt(n) == CHOOSE r \in 0..n : r * r = n
Norm(a) == Sqrt(Dot(a, a))

\* mutation for C27: the dot product is divided by norm_a twice
_cosine_similarity_OneNorm(a, b) ==
    IF Norm(a) = 0 \/ Norm(b) = 0
    THEN <<0, 1>>
    ELSE <<Dot(a, b), Norm(a) * Norm(a)>>

_cosine_similarity(a, b) ==
    IF Norm(a) = 0 \/ Norm(b) = 0
    THEN <<0, 1>>
    ELSE <<Dot(a, b), Norm(a) * Norm(b)>>

\* p >= q on fractions with positive denominators
FracGE(p, q) == p[1] * q[2] >= q[1] * p[2]
\* max(...) of a non-empty set of fractions
FracMax(S) == CHOOSE p \in S : \A q \in S : FracGE(p, q)

(***************************************************************************)
(* EmbeddingCache (embedding_cache.py)                                     *)
(*                                                                         *)
(* The backing document is [kind, data]: "missing" (no file), "corrupt"    *)
(* (json.load raises), "unreadable" (open/read raises) or "json" (a        *)
(* document written by _save, holding data).                               *)
(***************************************************************************)
\* hashlib.md5(content.encode()).hexdigest()[:8]: a 32-bit digest, so two
\* contents can share one ("a" and "c" do here)
Fingerprint(content) ==
    CASE content = "a" -> "h1"
      [] content = "b" -> "h2"
      [] content = "c" -> "h1"

\* mutation for C8: the key leaves the content fingerprint out
_key_IdOnly(message_id, content) == <<message_id, "h0">>

_key(message_id, content) == <<message_id, Fingerprint(content)>>

\* mutation for C10: _load without its try/except
_load_Unguarded(file) ==
    IF file.kind = "missing"
    THEN [raised |-> FALSE, data |-> EmptyDict]
    ELSE IF file.kind = "json"
         THEN [raised |-> FALSE, data |-> file.data]
         ELSE [raised |-> TRUE, data |-> EmptyDict]

\* __init__ then _load: the instance's _data, and whether opening raised
_load(file) ==
    IF file.kind = "missing"
    THEN [raised |-> FALSE, data |-> EmptyDict]
    ELSE IF file.kind = "json"
         THEN [raised |-> FALSE, data |-> file.data]
         ELSE [raised |-> FALSE, data |-> EmptyDict]    \* except Exception

\* mutation for C9: set() leaves the write to a later flush
_save_Deferred(data, file) == file

\* the document _save leaves behind
_save(data, file) == [kind |-> "json", data |-> data]

get(data, message_id, content) ==
    IF _key(message_id, content) \in DOMAIN data
    THEN data[_key(message_id, content)]
    ELSE None

\* _data after set(message_id, content, embedding)
set(data, message_id, content, embedding) ==
    [k \in DOMAIN data \cup {_key(message_id, content)} |->
        IF k = _key(message_id, content) THEN embedding ELSE data[k]]

MissingFile == [kind |-> "missing", data |-> EmptyDict]
CorruptFile == [kind |-> "corrupt", data |-> EmptyDict]
UnreadableFile == [kind |-> "unreadable", data |-> EmptyDict]

(***************************************************************************)
(* The persisted Topic Set, as _extract_topics builds it: the parsed       *)
(* topics, then one sticky entry when ids were flagged.                    *)
(***************************************************************************)
Topic(label, count) ==
    [label |-> label, count |-> count, sticky |-> FALSE, message_ids |-> <<>>]
StickyTopic(ids) ==
    [label |-> "Instructions & Preferences", count |-> Len(ids),
     sticky |-> TRUE, message_ids |-> ids]
TopicSets ==
    { <<>>,
      <<Topic("A", 2), StickyTopic(<<"m1">>)>>,
      <<Topic("A", 1), Topic("B", 1), StickyTopic(<<"m2", "m3">>)>> }

(***************************************************************************)
(* _on_pipeline_context and _compute_relevant_ids (main.py)                *)
(***************************************************************************)
\* mutation for C1: the gate forgets the embedding_search flag
FilterInactive_TopicsOnly(topics, search) == topics = {}

\* if not self.active_topics or not self.embedding_search: return
FilterInactive(topics, search) == topics = {} \/ ~search

\* sticky_ids.update(t.get("message_ids", [])) for every sticky topic
StickyIdsOf(topics_list) ==
    UNION {Range(t.message_ids) : t \in {u \in Range(topics_list) : u.sticky}}

\* first loop of _compute_relevant_ids: the cache hits, by message id
CacheHits(messages, data) ==
    [id \in {m.id : m \in {x \in Range(messages) :
                              get(data, x.id, x.content) # None}} |->
        LET m == CHOOSE x \in Range(messages) : x.id = id
        IN  get(data, m.id, m.content)]

\* mutation for C28: every message is sent to the provider, cached or not
CacheMisses_All(messages, data) == messages

\* ... and the messages that missed it, in order
CacheMisses(messages, data) ==
    LET Miss(m) == get(data, m.id, m.content) = None
    IN  SelectSeq(messages, Miss)

\* second loop: cache.set(msg_id, content, emb) for zip(need_embed, new)
RECURSIVE SetAll(_, _, _, _)
SetAll(data, need, embs, i) ==
    IF i > Len(need) \/ i > Len(embs)
    THEN data
    ELSE SetAll(set(data, need[i].id, need[i].content, embs[i]),
                need, embs, i + 1)

\* ... and cached[msg_id] = emb
RECURSIVE CachedAll(_, _, _, _)
CachedAll(cch, need, embs, i) ==
    IF i > Len(need) \/ i > Len(embs)
    THEN cch
    ELSE CachedAll([id \in DOMAIN cch \cup {need[i].id} |->
                        IF id = need[i].id THEN embs[i] ELSE cch[id]],
                   need, embs, i + 1)

\* max(_cosine_similarity(emb, t_emb) for t_emb in topic_embeddings)
MaxSim(emb, temb) ==
    FracMax({_cosine_similarity(emb, temb[l]) : l \in DOMAIN temb})

\* mutation for C2: a strict comparison, max_sim > threshold
PassesThreshold_Strict(max_sim, threshold) == ~FracGE(threshold, max_sim)

\* max_sim >= self.similarity_threshold
PassesThreshold(max_sim, threshold) == FracGE(max_sim, threshold)

\* one iteration of the third loop: is msg appended to included?
IsIncluded(msg, sticky, cch, temb, threshold) ==
    \/ msg.id \in sticky
    \/ /\ msg.id \in DOMAIN cch
       /\ PassesThreshold(MaxSim(cch[msg.id], temb), threshold)

Ids(messages) == [i \in DOMAIN messages |-> messages[i].id]

\* max() of an empty sequence raises ValueError: no topic embedding, and
\* a message that is not sticky has an embedding to score
ScoringRaises(messages, sticky, cch, temb) ==
    /\ DOMAIN temb = {}
    /\ \E i \in DOMAIN messages :
           messages[i].id \notin sticky /\ messages[i].id \in DOMAIN cch

\* mutation for C29: labels an earlier run has embedded are remembered and
\* not sent to the provider again
TopicBatch_OnlyNew(active, known) == active \ known

\* llm.embed(list(self.active_topics)): every active label, whatever
\* earlier runs have embedded
TopicBatch(active, known) == active

\* the list _compute_relevant_ids returns
ComputeRelevantIds(messages, sticky, cch, temb, threshold) ==
    LET In(m) == IsIncluded(m, sticky, cch, temb, threshold)
    IN  Ids(SelectSeq(messages, In))

\* mutation for C3: the fallback tests included itself, sticky ids and all
NonStickyIncluded_All(incl, sticky) == incl

\* non_sticky_included = [i for i in included if i not in sticky_ids]
NonStickyIncluded(incl, sticky) ==
    LET NonSticky(i) == i \notin sticky
    IN  SelectSeq(incl, NonSticky)

\* ctx.history = [m for m in ctx.history if m.get("id", "") in included_set]
KeepIncluded(history, incl) ==
    LET Kept(m) == m.id \in Range(incl)
    IN  SelectSeq(history, Kept)

\* mutation for C5: sticky messages are merged in front of the selected
\* ones instead of being kept in place
RewriteHistory_StickyFirst(history, incl, sticky) ==
    LET Sticky(m) == m.id \in sticky
        Selected(m) == m.id \in Range(incl) /\ m.id \notin sticky
    IN  IF NonStickyIncluded(incl, sticky) = <<>>
        THEN history
        ELSE SelectSeq(history, Sticky) \o SelectSeq(history, Selected)

\* the tail of the hook: fallback to the full history, or the rewrite
RewriteHistory(history, incl, sticky) ==
    IF NonStickyIncluded(incl, sticky) = <<>>
    THEN history
    ELSE KeepIncluded(history, incl)

(***************************************************************************)
(* _extract_topics (main.py): the completion's text, the fence stripping,  *)
(* json.loads and the synthesized sticky entry.                            *)
(*                                                                         *)
(* response.content.strip() is a sequence of lines. A line is "```json"    *)
(* (kind "fence_json"), "```" (kind "fence"), prose (kind "junk") or a     *)
(* JSON document (kind "doc"). A JSON document is an object with optional  *)
(* "topics" and "sticky_message_ids" members, or a list.                   *)
(***************************************************************************)
Absent == [present |-> FALSE, value |-> <<>>]
Member(v) == [present |-> TRUE, value |-> v]
JsonObject(topics, sticky) ==
    [json |-> "object", topics |-> topics, sticky_message_ids |-> sticky]
JsonList == [json |-> "list", topics |-> Absent, sticky_message_ids |-> Absent]
NoDoc == [json |-> "none", topics |-> Absent, sticky_message_ids |-> Absent]

FenceJson == [kind |-> "fence_json", doc |-> NoDoc]
Fence == [kind |-> "fence", doc |-> NoDoc]
Junk == [kind |-> "junk", doc |-> NoDoc]
DocLine(d) == [kind |-> "doc", doc |-> d]

\* the documents the completion provider is seen to return
DocAOne == JsonObject(Member(<<Topic("A", 2)>>), Member(<<"m1">>))
DocABTwo ==
    JsonObject(Member(<<Topic("A", 1), Topic("B", 1)>>), Member(<<"m2", "m1">>))
DocBNone == JsonObject(Member(<<Topic("B", 1)>>), Member(<<>>))
DocEmptyTopics == JsonObject(Member(<<>>), Absent)
DocNoMembers == JsonObject(Absent, Absent)

\* response.content for the calls of llm.complete
Completions ==
    { <<DocLine(DocAOne)>>,
      <<FenceJson, DocLine(DocABTwo), Fence>>,
      <<FenceJson, DocLine(DocBNone)>>,
      <<DocLine(DocEmptyTopics)>>,
      <<DocLine(DocNoMembers)>>,
      <<DocLine(DocBNone), Fence>>,
      <<Junk, DocLine(DocAOne)>>,
      <<DocLine(JsonList)>>,
      <<>> }

\* raw.startswith("```") / raw.endswith("```")
StartsWithFence(raw) ==
    raw # <<>> /\ raw[1].kind \in {"fence", "fence_json"}
EndsWithFence(raw) == raw # <<>> /\ raw[Len(raw)].kind = "fence"

\* if raw.startswith("```"): drop the first line, then a closing fence
StripFences(raw) ==
    IF StartsWithFence(raw)
    THEN LET rest == Tail(raw)
         IN  IF EndsWithFence(rest)
             THEN SubSeq(rest, 1, Len(rest) - 1)
             ELSE rest
    ELSE raw

\* json.loads(raw): one JSON document and nothing else, or it raises
JsonLoads(raw) ==
    IF Len(raw) = 1 /\ raw[1].kind = "doc"
    THEN [raised |-> FALSE, data |-> raw[1].doc]
    ELSE [raised |-> TRUE, data |-> NoDoc]

\* data.get(key, []) on a JSON object
GetOr(member) == IF member.present THEN member.value ELSE <<>>

\* mutation for C13: the entry is appended whether or not ids were flagged
WithSticky_Always(topics, ids) == Append(topics, StickyTopic(ids))

\* if sticky_ids: topics.append({... "count": len(sticky_ids)})
WithSticky(topics, ids) ==
    IF ids # <<>> THEN Append(topics, StickyTopic(ids)) ELSE topics

\* mutation for C15: a text that does not parse yields an empty topic list
\* instead of raising
_extract_topics_Lenient(content) ==
    LET loaded == JsonLoads(StripFences(content))
    IN  IF loaded.raised \/ loaded.data.json # "object"
        THEN [raised |-> FALSE, topics |-> <<>>]
        ELSE [raised |-> FALSE,
              topics |-> WithSticky(GetOr(loaded.data.topics),
                                    GetOr(loaded.data.sticky_message_ids))]

\* what _extract_topics returns for a completion text, or that it raised
\* (json.loads on bad text, data.get on a document that is not an object)
_extract_topics(content) ==
    LET loaded == JsonLoads(StripFences(content))
    IN  IF loaded.raised \/ loaded.data.json # "object"
        THEN [raised |-> TRUE, topics |-> <<>>]
        ELSE [raised |-> FALSE,
              topics |-> WithSticky(GetOr(loaded.data.topics),
                                    GetOr(loaded.data.sticky_message_ids))]

\* mutation for C12: the new topics are appended to the loaded ones
SetTopics_Append(old, topics) == old \o topics

\* mutation for C14: sticky entries of the loaded Topic Set are carried over
SetTopics_KeepSticky(old, topics) ==
    LET IsSticky(x) == x.sticky
    IN  SelectSeq(old, IsSticky) \o topics

\* data["topics"] = topics
SetTopics(old, topics) == topics

\* mutation for C17: the hook awaits the extraction instead of spawning it
AfterCreateTask_Awaited(task_pc) ==
    IF task_pc = "done" THEN "returned" ELSE "awaiting"

\* asyncio.create_task(...): the hook goes on without waiting for the task
AfterCreateTask(task_pc) == "returned"

(***************************************************************************)
(* State after construction                                                *)
(***************************************************************************)
Instances == {"c1", "c2"}
NoGet == [inst |-> "", id |-> "", content |-> "", result |-> None]

RunIdle ==
    /\ pc = "idle"
    /\ ctx_chat_id = ""
    /\ ctx_history = <<>>
    /\ hist_in = <<>>
    /\ load_status = "none"
    /\ embed_failed = FALSE
    /\ sticky_ids = {}
    /\ embed_req = {}
    /\ topic_embeddings = EmptyDict
    /\ cache_data = EmptyDict
    /\ need_embed = <<>>
    /\ cached = EmptyDict
    /\ included = <<>>
    /\ scored = FALSE

ApiIdle ==
    /\ inst = [i \in Instances |->
                 [state |-> "new", opened_on |-> "", opened_at |-> 0,
                  data |-> EmptyDict]]
    /\ put_log = <<>>
    /\ last_get = NoGet

\* the extraction tasks, none created yet
Tasks == {"t1", "t2"}
IdleRun ==
    [pc |-> "idle", seq |-> 0, chat_id |-> "",
     data |-> [messages |-> <<>>, topics |-> <<>>],
     response |-> <<>>, topics |-> <<>>, outcome |-> "none"]

ExtIdle ==
    /\ runs = [t \in Tasks |-> IdleRun]
    /\ started = 0
    /\ out_pc = "idle"

\* the arguments of a command call. topics / enabled are the named
\* parameters; p and params are the nested dicts some callers send in
\* kwargs (given: the kwarg is there; has: the dict holds the member)
NoDict == [given |-> FALSE, has |-> FALSE, topics |-> <<>>, enabled |-> FALSE]
EmptyParams ==
    [given |-> TRUE, has |-> FALSE, topics |-> <<>>, enabled |-> FALSE]
TopicsDict(l) ==
    [given |-> TRUE, has |-> TRUE, topics |-> l, enabled |-> FALSE]
EnabledDict(b) ==
    [given |-> TRUE, has |-> TRUE, topics |-> <<>>, enabled |-> b]
NoArgs == [topics |-> Absent, enabled |-> "default",
           p |-> NoDict, params |-> NoDict]

NoCall == [n |-> 0, cmd |-> "", args |-> NoArgs, status |-> "",
           active_topics |-> {}, embedding_search |-> FALSE]

CmdIdle ==
    /\ events = <<>>
    /\ last_call = NoCall
    /\ hl_tasks = <<>>

\* no get_topics call made, no similarity computed
NoGetTopics == [pc |-> "idle", chat_id |-> "", loaded |-> "", status |-> "",
                topics |-> <<>>, total_messages |-> 0]
NoCosine == [a |-> <<0, 0>>, b |-> <<0, 0>>, ab |-> <<0, 1>>, ba |-> <<0, 1>>,
             aa |-> <<0, 1>>, included |-> FALSE, done |-> FALSE]
\* panel.html as loaded: var scTopics = []; var scActive = new Set();
\* var scSimilarity = true. scActive keeps the insertion order of the Set.
\* requests are the execute_command requests sent so far, seen the number
\* of backend events the panel's listeners have handled.
NoPanel ==
    [scTopics |-> <<>>, scActive |-> <<>>, scSimilarity |-> TRUE,
     requests |-> <<>>, seen |-> 0]

AuxIdle ==
    /\ gt_call = NoGetTopics
    /\ cos = NoCosine
    /\ panel = NoPanel

\* a document an earlier run left behind: m1 embedded with content "a"
WarmFile == [kind |-> "json", data |-> (_key("m1", "a") :> Embedding("a"))]

\* Plugin.__init__ reads similarity_threshold and embedding_search from the
\* config; active_topics is whatever set_filter / set_similarity_mode left
Init ==
    /\ active_topics \in SUBSET Labels
    /\ embedding_search \in BOOLEAN
    /\ similarity_threshold \in Thresholds
    /\ chat_topics \in TopicSets
    /\ cache_file \in {MissingFile, CorruptFile, WarmFile}
    /\ provider_silent \in BOOLEAN
    /\ RunIdle
    /\ ApiIdle
    /\ chat_messages = <<>>
    /\ ExtIdle
    /\ current_chat_id = ""
    /\ CmdIdle
    /\ AuxIdle

\* the labels whose embeddings the provider has returned to some run
EmbeddedBefore ==
    DOMAIN topic_embeddings
    \cup UNION {DOMAIN hl_tasks[j].temb : j \in DOMAIN hl_tasks}

(***************************************************************************)
(* _on_pipeline_context, one action per stretch between awaits             *)
(***************************************************************************)
\* the pipeline publishes pipeline.context with ctx.history = h; the hook
\* runs to its first await, or returns at one of its two gates
ContextStart(h, chat_id) ==
    /\ pc = "idle"
    /\ ctx_history' = h
    /\ hist_in' = h
    /\ ctx_chat_id' = chat_id
    /\ pc' = IF FilterInactive(active_topics, embedding_search)
                \/ chat_id = "" \/ h = <<>>
             THEN "done"
             ELSE "await_load"
    /\ UNCHANGED <<ext_vars, cmd_vars, aux_vars, plugin_vars, provider_silent,
                   chat_topics, cache_file,
                   api_vars,
                   load_status, embed_failed, sticky_ids, embed_req,
                   topic_embeddings, cache_data, need_embed, cached,
                   included, scored>>

\* memory.load_chat raises: except Exception -> log, return
LoadChatRaises ==
    /\ pc = "await_load"
    /\ load_status' = "raise"
    /\ pc' = "done"
    /\ UNCHANGED <<ext_vars, cmd_vars, aux_vars, plugin_vars, provider_silent,
                   chat_topics, cache_file,
                   api_vars,
                   ctx_chat_id, ctx_history, hist_in, embed_failed,
                   sticky_ids, embed_req, topic_embeddings, cache_data,
                   need_embed, cached, included, scored>>

\* memory.load_chat returns; status "success" carries the chat document,
\* any other status carries no "data". The hook does not look at status:
\* it resolves sticky_ids from data.get("topics", []) and calls
\* llm.embed(list(self.active_topics))
LoadChatReturns(status) ==
    /\ pc = "await_load"
    /\ load_status' = status
    /\ LET topics_list == IF status = "success" THEN chat_topics ELSE <<>>
       IN  sticky_ids' = StickyIdsOf(topics_list)
    /\ embed_req' = TopicBatch(active_topics, EmbeddedBefore)
    /\ pc' = "await_topic_embed"
    /\ UNCHANGED <<ext_vars, cmd_vars, aux_vars, plugin_vars, provider_silent,
                   chat_topics, cache_file,
                   api_vars,
                   ctx_chat_id, ctx_history, hist_in, embed_failed,
                   topic_embeddings, cache_data, need_embed, cached,
                   included, scored>>

\* an llm.embed call raises (topics or messages): except Exception
EmbedRaises ==
    /\ pc \in {"await_topic_embed", "await_msg_embed"}
    /\ ~provider_silent
    /\ embed_failed' = TRUE
    /\ pc' = "done"
    /\ UNCHANGED <<ext_vars, cmd_vars, aux_vars, plugin_vars, provider_silent,
                   chat_topics, cache_file,
                   api_vars,
                   ctx_chat_id, ctx_history, hist_in, load_status,
                   sticky_ids, embed_req, topic_embeddings, cache_data,
                   need_embed, cached, included, scored>>

\* scoring loop, fallback and rewrite of ctx.history, given cached; a
\* ValueError of the scoring loop is caught by the hook's except clause
Finish(cch, temb) ==
    IF ScoringRaises(ctx_history, sticky_ids, cch, temb)
    THEN /\ pc' = "done"
         /\ UNCHANGED <<included, scored, ctx_history>>
    ELSE LET incl == ComputeRelevantIds(ctx_history, sticky_ids, cch, temb,
                                        similarity_threshold)
         IN  /\ included' = incl
             /\ scored' = TRUE
             /\ ctx_history' = RewriteHistory(ctx_history, incl, sticky_ids)
             /\ pc' = "done"

\* the topic embeddings arrive: open the cache, look every message up,
\* then either await the embeddings of the misses or go on to scoring
TopicEmbedReturns ==
    /\ pc = "await_topic_embed"
    /\ ~provider_silent
    /\ LET temb == [l \in embed_req |-> Embedding(l)]
           opened == _load(cache_file)
           hits == CacheHits(ctx_history, opened.data)
           misses == CacheMisses(ctx_history, opened.data)
       IN  /\ topic_embeddings' = temb
           /\ IF opened.raised
              THEN /\ pc' = "done"
                   /\ UNCHANGED <<cache_data, cached, need_embed, included,
                                  scored, ctx_history>>
              ELSE /\ cache_data' = opened.data
                   /\ cached' = hits
                   /\ need_embed' = misses
                   /\ IF misses = <<>>
                      THEN Finish(hits, temb)
                      ELSE /\ pc' = "await_msg_embed"
                           /\ UNCHANGED <<included, scored, ctx_history>>
    /\ UNCHANGED <<ext_vars, cmd_vars, aux_vars, plugin_vars, provider_silent,
                   chat_topics, cache_file,
                   api_vars,
                   ctx_chat_id, hist_in, load_status, embed_failed,
                   sticky_ids, embed_req>>

\* the message embeddings arrive: cache.set each (write-through), score
MsgEmbedReturns ==
    /\ pc = "await_msg_embed"
    /\ ~provider_silent
    /\ LET new_embeddings ==
               [i \in DOMAIN need_embed |-> Embedding(need_embed[i].content)]
           data == SetAll(cache_data, need_embed, new_embeddings, 1)
           cch == CachedAll(cached, need_embed, new_embeddings, 1)
       IN  /\ cache_data' = data
           /\ cache_file' = _save(data, cache_file)
           /\ cached' = cch
           /\ Finish(cch, topic_embeddings)
    /\ UNCHANGED <<ext_vars, cmd_vars, aux_vars, plugin_vars, provider_silent,
                   chat_topics, api_vars,
                   ctx_chat_id, hist_in,
                   load_status, embed_failed, sticky_ids, embed_req,
                   topic_embeddings, need_embed>>

Next ==
    \/ \E h \in Histories, chat_id \in {"", "chat1"} : ContextStart(h, chat_id)
    \/ LoadChatRaises
    \/ \E status \in {"success", "error"} : LoadChatReturns(status)
    \/ EmbedRaises
    \/ TopicEmbedReturns
    \/ MsgEmbedReturns

Spec == Init /\ [][Next]_vars

\* every step that can be taken is eventually taken: the chat store answers,
\* a provider that is up answers or fails, the scheduler resumes the hook.
\* A silent provider enables nothing, and the hook has no timeout of its own.
FairSpec == Spec /\ WF_vars(Next)

(***************************************************************************)
(* EmbeddingCache driven directly: instances are constructed over the     *)
(* chat's document, then get() and set() are called on them.               *)
(***************************************************************************)
CacheIds == {"m1", "m2"}

\* EmbeddingCache(memory_dir, chat_id)
CacheOpen(i) ==
    /\ inst[i].state = "new"
    /\ LET opened == _load(cache_file)
       IN  inst' = [inst EXCEPT ![i] =
                       [state |-> IF opened.raised THEN "failed" ELSE "open",
                        opened_on |-> cache_file.kind,
                        opened_at |-> Len(put_log),
                        data |-> opened.data]]
    /\ UNCHANGED <<ext_vars, cmd_vars, aux_vars, plugin_vars, provider_silent,
                   chat_topics, cache_file,
                   run_vars,
                   put_log, last_get>>

\* cache.get(message_id, content)
CacheGet(i, message_id, content) ==
    /\ inst[i].state = "open"
    /\ last_get' = [inst |-> i, id |-> message_id, content |-> content,
                    result |-> get(inst[i].data, message_id, content)]
    /\ UNCHANGED <<ext_vars, cmd_vars, aux_vars, plugin_vars, provider_silent,
                   chat_topics, cache_file,
                   run_vars,
                   inst, put_log>>

\* cache.set(message_id, content, embedding): update _data, then _save.
\* As in _compute_relevant_ids, the vector is the provider's for content.
CacheSet(i, message_id, content) ==
    /\ inst[i].state = "open"
    /\ Len(put_log) < MaxPuts
    /\ LET embedding == Embedding(content)
           data == set(inst[i].data, message_id, content, embedding)
       IN  /\ inst' = [inst EXCEPT ![i].data = data]
           /\ cache_file' = _save(data, cache_file)
           /\ put_log' = Append(put_log, [inst |-> i, id |-> message_id,
                                          content |-> content,
                                          vec |-> embedding])
    /\ last_get' = NoGet
    /\ UNCHANGED <<ext_vars, cmd_vars, aux_vars, plugin_vars, provider_silent,
                   chat_topics, run_vars>>

InitCache ==
    /\ active_topics = {}
    /\ embedding_search = TRUE
    /\ similarity_threshold = <<2, 5>>
    /\ chat_topics = <<>>
    /\ cache_file \in {MissingFile, CorruptFile, UnreadableFile}
    /\ provider_silent = FALSE
    /\ RunIdle
    /\ ApiIdle
    /\ chat_messages = <<>>
    /\ ExtIdle
    /\ current_chat_id = ""
    /\ CmdIdle
    /\ AuxIdle

NextCache ==
    \/ \E i \in Instances : CacheOpen(i)
    \/ \E i \in Instances, id \in CacheIds, c \in Contents : CacheGet(i, id, c)
    \/ \E i \in Instances, id \in CacheIds, c \in Contents : CacheSet(i, id, c)

SpecCache == InitCache /\ [][NextCache]_vars

(***************************************************************************)
(* Topic extraction: _on_pipeline_output starts _run_topic_extraction as a *)
(* task; the task awaits memory.load_chat, llm.complete (inside            *)
(* _extract_topics) and memory.save_chat. Turns add messages to the chat   *)
(* document meanwhile.                                                     *)
(***************************************************************************)
\* mutation for C30: total_messages is the number of topics
TopicsUpdated_CountsTopics(chat_id, topics, total) ==
    [name |-> "smart_context.topics_updated", chat_id |-> chat_id,
     topics |-> topics, total_messages |-> Len(topics),
     active_topics |-> {}, message_ids |-> <<>>]

\* self.emit("smart_context.topics_updated", {...})
TopicsUpdated(chat_id, topics, total) ==
    [name |-> "smart_context.topics_updated", chat_id |-> chat_id,
     topics |-> topics, total_messages |-> total,
     active_topics |-> {}, message_ids |-> <<>>]

\* the n-th message a turn stores in the chat document
TurnMessage(n) == [id |-> <<"m1", "m2", "m3">>[n], content |-> "a"]

\* the task slot create_task uses: a fresh one, else a finished one
FreeTasks == {t \in Tasks : runs[t].pc = "idle"}
DoneTasks == {t \in Tasks : runs[t].pc = "done"}
NextTask ==
    IF FreeTasks # {}
    THEN CHOOSE t \in FreeTasks : TRUE
    ELSE CHOOSE t \in DoneTasks : TRUE

\* memory.save_chat(chat_id, data): the chat document becomes data
save_chat(data) == data

\* memory.load_chat(chat_id) with status "success": the chat document
load_chat(messages, topics) == [messages |-> messages, topics |-> topics]

\* what the other variables of the plugin do during extraction: nothing
filter_side ==
    <<plugin_vars, provider_silent, cache_file, run_vars, api_vars, aux_vars>>

\* the chat store persists a message of a turn
StoreAppend ==
    /\ Len(chat_messages) < MaxStore
    /\ chat_messages' = Append(chat_messages,
                               TurnMessage(Len(chat_messages) + 1))
    /\ UNCHANGED <<filter_side, cmd_vars, chat_topics, runs, started, out_pc>>

\* _on_pipeline_output(ctx): two gates, then create_task
PipelineOutput(response, chat_id) ==
    /\ started < MaxExtractions
    /\ FreeTasks \cup DoneTasks # {}
    /\ IF response = "" \/ chat_id = ""
       THEN /\ out_pc' = "returned"
            /\ UNCHANGED <<runs, started>>
       ELSE LET t == NextTask
            IN  /\ started' = started + 1
                /\ runs' = [runs EXCEPT ![t] =
                               [IdleRun EXCEPT !.pc = "await_load",
                                               !.seq = started + 1,
                                               !.chat_id = chat_id]]
                /\ out_pc' = AfterCreateTask("await_load")
    /\ UNCHANGED <<filter_side, cmd_vars, chat_topics, chat_messages>>

\* memory.load_chat raises: except Exception -> log
ExtractLoadRaises(t) ==
    /\ runs[t].pc = "await_load"
    /\ runs' = [runs EXCEPT ![t].pc = "done", ![t].outcome = "failed"]
    /\ UNCHANGED <<filter_side, cmd_vars, chat_topics, chat_messages,
                   started, out_pc>>

\* memory.load_chat returns: a status other than "success", or no
\* messages, ends the task; else llm.complete is called
ExtractLoadReturns(t, status) ==
    /\ runs[t].pc = "await_load"
    /\ LET data == load_chat(chat_messages, chat_topics)
       IN  IF status # "success" \/ data.messages = <<>>
           THEN runs' = [runs EXCEPT ![t].pc = "done",
                                     ![t].outcome = "skipped"]
           ELSE runs' = [runs EXCEPT ![t].pc = "await_complete",
                                     ![t].data = data]
    /\ UNCHANGED <<filter_side, cmd_vars, chat_topics, chat_messages,
                   started, out_pc>>

\* llm.complete raises inside _extract_topics: except Exception -> log
CompleteRaises(t) ==
    /\ runs[t].pc = "await_complete"
    /\ runs' = [runs EXCEPT ![t].pc = "done", ![t].outcome = "failed"]
    /\ UNCHANGED <<filter_side, cmd_vars, chat_topics, chat_messages,
                   started, out_pc>>

\* llm.complete returns content: parse it; data["topics"] = topics and
\* memory.save_chat is called, or the parse raised and the task ends
CompleteReturns(t, content) ==
    /\ runs[t].pc = "await_complete"
    /\ LET result == _extract_topics(content)
       IN  IF result.raised
           THEN runs' = [runs EXCEPT ![t].pc = "done",
                                     ![t].response = content,
                                     ![t].outcome = "failed"]
           ELSE runs' = [runs EXCEPT
                            ![t].pc = "await_save",
                            ![t].response = content,
                            ![t].topics = result.topics,
                            ![t].data.topics =
                                SetTopics(runs[t].data.topics, result.topics)]
    /\ UNCHANGED <<filter_side, cmd_vars, chat_topics, chat_messages,
                   started, out_pc>>

\* memory.save_chat raises: except Exception -> log
SaveChatRaises(t) ==
    /\ runs[t].pc = "await_save"
    /\ runs' = [runs EXCEPT ![t].pc = "done", ![t].outcome = "failed"]
    /\ UNCHANGED <<filter_side, cmd_vars, chat_topics, chat_messages,
                   started, out_pc>>

\* the chat store carries the save out
SaveChatWrites(t) ==
    /\ runs[t].pc = "await_save"
    /\ chat_messages' = save_chat(runs[t].data).messages
    /\ chat_topics' = save_chat(runs[t].data).topics
    /\ runs' = [runs EXCEPT ![t].pc = "saved"]
    /\ UNCHANGED <<filter_side, cmd_vars, started, out_pc>>

\* memory.save_chat returns: current_chat_id, the topics_updated event
SaveChatReturns(t) ==
    /\ runs[t].pc = "saved"
    /\ current_chat_id' = runs[t].chat_id
    /\ events' = Append(events,
                        TopicsUpdated(runs[t].chat_id, runs[t].topics,
                                      Len(runs[t].data.messages)))
    /\ runs' = [runs EXCEPT ![t].pc = "done", ![t].outcome = "saved"]
    /\ UNCHANGED <<filter_side, last_call, hl_tasks, chat_topics,
                   chat_messages, started, out_pc>>

InitExtract ==
    /\ active_topics = {}
    /\ embedding_search = TRUE
    /\ similarity_threshold = <<2, 5>>
    /\ chat_topics \in TopicSets
    /\ cache_file = MissingFile
    /\ provider_silent = FALSE
    /\ RunIdle
    /\ ApiIdle
    /\ chat_messages \in {<<>>, <<TurnMessage(1)>>}
    /\ ExtIdle
    /\ current_chat_id = ""
    /\ CmdIdle
    /\ AuxIdle

NextExtract ==
    \/ StoreAppend
    \/ \E response \in {"", "text"}, chat_id \in {"", "chat1"} :
           PipelineOutput(response, chat_id)
    \/ \E t \in Tasks : ExtractLoadRaises(t)
    \/ \E t \in Tasks, status \in {"success", "error"} :
           ExtractLoadReturns(t, status)
    \/ \E t \in Tasks : CompleteRaises(t)
    \/ \E t \in Tasks, content \in Completions : CompleteReturns(t, content)
    \/ \E t \in Tasks : SaveChatRaises(t)
    \/ \E t \in Tasks : SaveChatWrites(t)
    \/ \E t \in Tasks : SaveChatReturns(t)

SpecExtract == InitExtract /\ [][NextExtract]_vars

(***************************************************************************)
(* The commands set_filter and set_similarity_mode (main.py). Neither has  *)
(* an await: each call is one atomic action.                               *)
(***************************************************************************)
\* self.emit("smart_context.filter_changed", {...}); list(self.active_topics)
\* has no fixed order, so the payload is kept as the set
FilterChanged(chat_id, active) ==
    [name |-> "smart_context.filter_changed", chat_id |-> chat_id,
     topics |-> <<>>, total_messages |-> 0,
     active_topics |-> active, message_ids |-> <<>>]

\* p = kwargs.get("p") or kwargs.get("params", {}): an empty dict is falsy
PickParams(args) ==
    IF args.p.given /\ args.p.has
    THEN args.p
    ELSE IF args.params.given THEN args.params ELSE EmptyParams

\* if topics is None: topics = p.get("topics", [])
ResolveTopics(args) ==
    IF args.topics.present
    THEN args.topics.value
    ELSE IF PickParams(args).has THEN PickParams(args).topics ELSE <<>>

\* if not isinstance(enabled, bool): enabled = bool(p.get("enabled", True))
ResolveEnabled(args) ==
    IF args.enabled \in {"true", "false", "default"}
    THEN args.enabled # "false"
    ELSE IF PickParams(args).has THEN PickParams(args).enabled ELSE TRUE

\* mutation for C19: the labels are added to the selection
NewSelection_Additive(old, topics) == old \cup Range(topics)

\* self.active_topics = set(topics)
NewSelection(old, topics) == Range(topics)

\* the topic lists callers send, and the ways they send them
TopicLists == {<<>>, <<"A">>, <<"B", "A">>, <<"A", "A">>}
SetFilterCalls ==
    {[NoArgs EXCEPT !.topics = Member(l)] : l \in TopicLists}
    \cup {[NoArgs EXCEPT !.p = TopicsDict(l)] : l \in TopicLists}
    \cup {[NoArgs EXCEPT !.params = TopicsDict(l)] : l \in TopicLists}
    \cup {[NoArgs EXCEPT !.p = EmptyParams, !.params = TopicsDict(l)] :
              l \in TopicLists}
    \cup {NoArgs}
SetModeCalls ==
    {[NoArgs EXCEPT !.enabled = e] : e \in {"true", "false", "default"}}
    \cup {[NoArgs EXCEPT !.enabled = "none", !.p = EnabledDict(b)] :
              b \in BOOLEAN}
    \cup {[NoArgs EXCEPT !.enabled = "none", !.params = EnabledDict(b)] :
              b \in BOOLEAN}
    \cup {[NoArgs EXCEPT !.enabled = "none"]}
    \cup {[NoArgs EXCEPT !.p = EnabledDict(b)] : b \in BOOLEAN}

\* what a command leaves alone besides the filter state
cmd_side == <<provider_silent, chat_topics, cache_file, run_vars, api_vars,
              ext_vars, aux_vars, similarity_threshold, current_chat_id>>

\* asyncio.create_task(self._emit_highlight_ids(chat_id)): the task and its
\* locals, before it has run
NewHighlight(chat_id) ==
    [chat_id |-> chat_id, pc |-> "created", outcome |-> "",
     messages |-> <<>>, sticky |-> {}, embed_req |-> {}, temb |-> EmptyDict,
     cache_data |-> EmptyDict, need_embed |-> <<>>, cached |-> EmptyDict,
     included |-> <<>>]

\* mutation for C20: clearing the selection also switches the mode off
SetFilter_EmptyDisables(args) ==
    /\ last_call.n < MaxCalls
    /\ LET active == NewSelection(active_topics, ResolveTopics(args))
       IN  /\ active_topics' = active
           /\ embedding_search' = (embedding_search /\ active # {})
           /\ events' = Append(events, FilterChanged(current_chat_id, active))
           /\ hl_tasks' =
                  IF current_chat_id # "" /\ active # {} /\ embedding_search
                  THEN Append(hl_tasks, NewHighlight(current_chat_id))
                  ELSE hl_tasks
           /\ last_call' = [n |-> last_call.n + 1, cmd |-> "set_filter",
                            args |-> args, status |-> "success",
                            active_topics |-> active,
                            embedding_search |-> FALSE]
    /\ UNCHANGED cmd_side

\* set_filter(topics, **kwargs)
SetFilter(args) ==
    /\ last_call.n < MaxCalls
    /\ LET active == NewSelection(active_topics, ResolveTopics(args))
       IN  /\ active_topics' = active
           /\ events' = Append(events, FilterChanged(current_chat_id, active))
           /\ hl_tasks' =
                  IF current_chat_id # "" /\ active # {} /\ embedding_search
                  THEN Append(hl_tasks, NewHighlight(current_chat_id))
                  ELSE hl_tasks
           /\ last_call' = [n |-> last_call.n + 1, cmd |-> "set_filter",
                            args |-> args, status |-> "success",
                            active_topics |-> active,
                            embedding_search |-> FALSE]
    /\ UNCHANGED <<cmd_side, embedding_search>>

\* mutation for C21: disabling the mode leaves the selection as it is
ModeSelection_Keeps(enabled, old) == old

\* if not enabled: self.active_topics.clear()
ModeSelection(enabled, old) == IF enabled THEN old ELSE {}

\* set_similarity_mode(enabled, **kwargs)
SetSimilarityMode(args) ==
    /\ last_call.n < MaxCalls
    /\ LET enabled == ResolveEnabled(args)
       IN  /\ embedding_search' = enabled
           /\ active_topics' = ModeSelection(enabled, active_topics)
           /\ events' = IF ~enabled
                        THEN Append(events, FilterChanged(current_chat_id, {}))
                        ELSE events
           /\ last_call' = [n |-> last_call.n + 1,
                            cmd |-> "set_similarity_mode",
                            args |-> args, status |-> "success",
                            active_topics |-> {},
                            embedding_search |-> enabled]
    /\ UNCHANGED <<cmd_side, hl_tasks>>

\* if not chat_id: p = kwargs.get("p") or kwargs.get("params", {});
\* chat_id = p.get("chat_id", self.current_chat_id). nested is the
\* "chat_id" member of that dict, when the dict has one
ResolveChatId(chat_id, nested, current) ==
    IF chat_id # ""
    THEN chat_id
    ELSE IF nested.present THEN nested.value ELSE current

\* mutation for C23: total_messages counts the topics
GetTopicsReturn_CountsTopics(status, data) ==
    IF status # "success"
    THEN [status |-> "success", topics |-> <<>>, total_messages |-> 0]
    ELSE [status |-> "success", topics |-> data.topics,
          total_messages |-> Len(data.topics)]

\* the two returns after the load: status other than "success", or the
\* topics and the number of messages of data
GetTopicsReturn(status, data) ==
    IF status # "success"
    THEN [status |-> "success", topics |-> <<>>, total_messages |-> 0]
    ELSE [status |-> "success", topics |-> data.topics,
          total_messages |-> Len(data.messages)]

\* what get_topics leaves alone: everything but its own call
gt_side == <<plugin_vars, provider_silent, chat_topics, cache_file, run_vars,
             api_vars, ext_vars, cmd_vars, cos, panel>>

\* get_topics(chat_id, **kwargs) up to its await, or its early return
GetTopics(chat_id, nested) ==
    /\ gt_call.pc = "idle"
    /\ LET id == ResolveChatId(chat_id, nested, current_chat_id)
       IN  gt_call' = IF id = ""
                      THEN [NoGetTopics EXCEPT !.pc = "done",
                                               !.status = "success"]
                      ELSE [NoGetTopics EXCEPT !.pc = "await_load",
                                               !.chat_id = id]
    /\ UNCHANGED gt_side

\* memory.load_chat returns to get_topics; only the stored chat, "chat1",
\* can be loaded with status "success"
GetTopicsLoadReturns(status) ==
    /\ gt_call.pc = "await_load"
    /\ status = "success" => gt_call.chat_id = "chat1"
    /\ LET ret == GetTopicsReturn(status,
                                  load_chat(chat_messages, chat_topics))
       IN  gt_call' = [gt_call EXCEPT !.pc = "done", !.loaded = status,
                                      !.status = ret.status,
                                      !.topics = ret.topics,
                                      !.total_messages = ret.total_messages]
    /\ UNCHANGED gt_side

\* memory.load_chat raises: get_topics has no handler, the exception goes
\* to the caller and nothing is returned
GetTopicsLoadRaises ==
    /\ gt_call.pc = "await_load"
    /\ gt_call' = [gt_call EXCEPT !.pc = "raised", !.loaded = "raise"]
    /\ UNCHANGED gt_side

\* the transcripts the chat store holds when commands arrive
StoredTranscripts ==
    { <<>>,
      <<[id |-> "m1", content |-> "a"]>>,
      <<[id |-> "m1", content |-> "a"], [id |-> "m2", content |-> "b"],
        [id |-> "m3", content |-> "c"]>> }

\* the plugin as constructed; current_chat_id is "" until an extraction
\* has completed for the chat
InitCmd ==
    /\ active_topics = {}
    /\ embedding_search \in BOOLEAN
    /\ similarity_threshold \in Thresholds
    /\ chat_topics \in TopicSets
    /\ cache_file = MissingFile
    /\ provider_silent = FALSE
    /\ RunIdle
    /\ ApiIdle
    /\ chat_messages \in StoredTranscripts
    /\ ExtIdle
    /\ current_chat_id \in {"", "chat1"}
    /\ CmdIdle
    /\ AuxIdle

NextCmd ==
    \/ \E args \in SetFilterCalls : SetFilter(args)
    \/ \E args \in SetModeCalls : SetSimilarityMode(args)
    \/ \E chat_id \in {"", "chat1", "chat2"},
          nested \in {Absent, Member("chat1"), Member("")} :
           GetTopics(chat_id, nested)
    \/ \E status \in {"success", "error"} : GetTopicsLoadReturns(status)
    \/ GetTopicsLoadRaises

SpecCmd == InitCmd /\ [][NextCmd]_vars

(***************************************************************************)
(* _emit_highlight_ids: the task set_filter creates. It awaits             *)
(* memory.load_chat, then runs _compute_relevant_ids over the stored       *)
(* transcript (two more awaits) and emits highlight_applied. Every         *)
(* exception ends the task in its except clause.                           *)
(***************************************************************************)
\* self.emit("smart_context.highlight_applied", {"message_ids": included})
HighlightApplied(ids) ==
    [name |-> "smart_context.highlight_applied", chat_id |-> "",
     topics |-> <<>>, total_messages |-> 0,
     active_topics |-> {}, message_ids |-> ids]

\* mutation for C25: the highlight leaves the sticky messages out
HighlightIds_NoSticky(incl, sticky) == NonStickyIncluded(incl, sticky)

\* the payload is the list _compute_relevant_ids returned, as it is
HighlightIds(incl, sticky) == incl

\* what a highlight task leaves alone
hl_side == <<plugin_vars, provider_silent, chat_topics, run_vars, api_vars,
             ext_vars, aux_vars, current_chat_id, last_call>>

\* memory.load_chat raises: except Exception -> log
HlLoadRaises(k) ==
    /\ hl_tasks[k].pc = "created"
    /\ hl_tasks' = [hl_tasks EXCEPT ![k].pc = "done",
                                    ![k].outcome = "load_raised"]
    /\ UNCHANGED <<hl_side, events, cache_file>>

\* memory.load_chat returns; the task does not look at status. It takes
\* messages and topics from data and calls llm.embed(list(active_topics))
HlLoadReturns(k, status) ==
    /\ hl_tasks[k].pc = "created"
    /\ LET data == IF status = "success"
                   THEN load_chat(chat_messages, chat_topics)
                   ELSE load_chat(<<>>, <<>>)
       IN  hl_tasks' = [hl_tasks EXCEPT
               ![k].pc = "await_topic_embed",
               ![k].messages = data.messages,
               ![k].sticky = StickyIdsOf(data.topics),
               ![k].embed_req = TopicBatch(active_topics, EmbeddedBefore)]
    /\ UNCHANGED <<hl_side, events, cache_file>>

\* an llm.embed call of the task raises
HlEmbedRaises(k) ==
    /\ hl_tasks[k].pc \in {"await_topic_embed", "await_msg_embed"}
    /\ ~provider_silent
    /\ hl_tasks' = [hl_tasks EXCEPT ![k].pc = "done",
                                    ![k].outcome = "embed_raised"]
    /\ UNCHANGED <<hl_side, events, cache_file>>

\* the scoring loop and the emit, given the task's cached embeddings
HlScored(task, cch, temb) ==
    IF ScoringRaises(task.messages, task.sticky, cch, temb)
    THEN [task EXCEPT !.pc = "done", !.outcome = "scoring_raised",
                      !.temb = temb, !.cached = cch]
    ELSE [task EXCEPT !.pc = "done", !.outcome = "emitted",
                      !.temb = temb, !.cached = cch,
                      !.included =
                          ComputeRelevantIds(task.messages, task.sticky, cch,
                                             temb, similarity_threshold)]
HlEmits(task, after) ==
    IF after.outcome = "emitted"
    THEN Append(events,
                HighlightApplied(HighlightIds(after.included, task.sticky)))
    ELSE events

\* the topic embeddings arrive: open the cache, look every message up,
\* then await the embeddings of the misses or score and emit
HlTopicEmbedReturns(k) ==
    /\ hl_tasks[k].pc = "await_topic_embed"
    /\ ~provider_silent
    /\ LET task == hl_tasks[k]
           temb == [l \in task.embed_req |-> Embedding(l)]
           opened == _load(cache_file)
           hits == CacheHits(task.messages, opened.data)
           misses == CacheMisses(task.messages, opened.data)
           looked == [task EXCEPT !.temb = temb, !.cache_data = opened.data,
                                  !.cached = hits, !.need_embed = misses]
           after == IF opened.raised
                    THEN [task EXCEPT !.temb = temb, !.pc = "done",
                                      !.outcome = "cache_raised"]
                    ELSE IF misses = <<>>
                         THEN HlScored(looked, hits, temb)
                         ELSE [looked EXCEPT !.pc = "await_msg_embed"]
       IN  /\ hl_tasks' = [hl_tasks EXCEPT ![k] = after]
           /\ events' = HlEmits(task, after)
    /\ UNCHANGED <<hl_side, cache_file>>

\* the message embeddings arrive: cache.set each, score and emit
HlMsgEmbedReturns(k) ==
    /\ hl_tasks[k].pc = "await_msg_embed"
    /\ ~provider_silent
    /\ LET task == hl_tasks[k]
           new_embeddings == [i \in DOMAIN task.need_embed |->
                                 Embedding(task.need_embed[i].content)]
           data == SetAll(task.cache_data, task.need_embed, new_embeddings, 1)
           cch == CachedAll(task.cached, task.need_embed, new_embeddings, 1)
           after == HlScored([task EXCEPT !.cache_data = data], cch,
                             task.temb)
       IN  /\ cache_file' = _save(data, cache_file)
           /\ hl_tasks' = [hl_tasks EXCEPT ![k] = after]
           /\ events' = HlEmits(task, after)
    /\ UNCHANGED hl_side

(***************************************************************************)
(* Plugin.__init__ over a configuration, followed by a Context Filter run. *)
(***************************************************************************)
\* config["similarity_threshold"]: not set, or a number
ConfigValues ==
    {Absent, Member(<<-1, 2>>), Member(<<0, 1>>), Member(<<2, 5>>),
     Member(<<1, 1>>), Member(<<3, 2>>)}

\* float(self.config.get("similarity_threshold", 0.4))
LoadThreshold(c) == IF c.present THEN c.value ELSE <<2, 5>>

InitConfig ==
    /\ active_topics \in SUBSET Labels
    /\ embedding_search \in BOOLEAN
    /\ similarity_threshold \in {LoadThreshold(c) : c \in ConfigValues}
    /\ chat_topics \in TopicSets
    /\ cache_file = MissingFile
    /\ provider_silent = FALSE
    /\ RunIdle
    /\ ApiIdle
    /\ chat_messages = <<>>
    /\ ExtIdle
    /\ current_chat_id = ""
    /\ CmdIdle
    /\ AuxIdle

SpecConfig == InitConfig /\ [][Next]_vars

(***************************************************************************)
(* _cosine_similarity and the threshold test applied to a pair of vectors: *)
(* a is a message's embedding, b a topic's.                                *)
(***************************************************************************)
\* vectors with whole-number norms, the zero vector among them
CosVectors ==
    {<<0, 0>>, <<1, 0>>, <<0, 1>>, <<-1, 0>>, <<2, 0>>, <<0, 5>>,
     <<3, 4>>, <<4, 3>>, <<-3, 4>>, <<3, -4>>, <<-4, -3>>}

InitCosine ==
    /\ active_topics = {"A"}
    /\ embedding_search = TRUE
    /\ similarity_threshold \in {LoadThreshold(c) : c \in ConfigValues}
    /\ chat_topics = <<>>
    /\ cache_file = MissingFile
    /\ provider_silent = FALSE
    /\ RunIdle
    /\ ApiIdle
    /\ chat_messages = <<>>
    /\ ExtIdle
    /\ current_chat_id = ""
    /\ CmdIdle
    /\ gt_call = NoGetTopics
    /\ panel = NoPanel
    /\ cos \in {[NoCosine EXCEPT !.a = a, !.b = b] :
                    a \in CosVectors, b \in CosVectors}

\* one iteration of the scoring loop for a message m1 that is not sticky,
\* has embedding a, against the single topic embedding b
Similarity ==
    /\ ~cos.done
    /\ cos' = [cos EXCEPT
           !.ab = _cosine_similarity(cos.a, cos.b),
           !.ba = _cosine_similarity(cos.b, cos.a),
           !.aa = _cosine_similarity(cos.a, cos.a),
           !.included = IsIncluded([id |-> "m1", content |-> "a"], {},
                                   "m1" :> cos.a, "A" :> cos.b,
                                   similarity_threshold),
           !.done = TRUE]
    /\ UNCHANGED <<plugin_vars, provider_silent, chat_topics, cache_file,
                   run_vars, api_vars, ext_vars, cmd_vars, gt_call, panel>>

NextCosine == Similarity

SpecCosine == InitCosine /\ [][NextCosine]_vars

(***************************************************************************)
(* A session: the panel's commands, the highlight tasks they create and    *)
(* one turn's Context Filter run, interleaved at their awaits. The         *)
(* pipeline hands the hook the stored transcript as ctx.history.           *)
(***************************************************************************)
\* the panel's calls: flat parameters
SessionFilterCalls ==
    {[NoArgs EXCEPT !.topics = Member(l)] : l \in {<<>>, <<"A">>, <<"B">>}}
SessionModeCalls ==
    {[NoArgs EXCEPT !.enabled = e] : e \in {"true", "false"}}

\* the chat the session is about: three stored messages, and the Topic
\* Set an extraction has or has not yet saved
SessionTranscript ==
    <<[id |-> "m1", content |-> "a"], [id |-> "m2", content |-> "b"],
      [id |-> "m3", content |-> "c"]>>
SessionTopicSets ==
    {<<>>, <<Topic("A", 1), Topic("B", 1), StickyTopic(<<"m2", "m3">>)>>}

InitSession ==
    /\ active_topics = {}
    /\ embedding_search \in BOOLEAN
    /\ similarity_threshold \in {<<2, 5>>, <<1, 1>>}
    /\ chat_topics \in SessionTopicSets
    /\ cache_file \in {MissingFile, WarmFile}
    /\ provider_silent = FALSE
    /\ RunIdle
    /\ ApiIdle
    /\ chat_messages = SessionTranscript
    /\ ExtIdle
    /\ current_chat_id = "chat1"
    /\ CmdIdle
    /\ AuxIdle

NextSession ==
    \/ \E args \in SessionFilterCalls : SetFilter(args)
    \/ \E args \in SessionModeCalls : SetSimilarityMode(args)
    \/ ContextStart(chat_messages, "chat1")
    \/ LoadChatRaises
    \/ \E status \in {"success", "error"} : LoadChatReturns(status)
    \/ EmbedRaises
    \/ TopicEmbedReturns
    \/ MsgEmbedReturns
    \/ \E k \in DOMAIN hl_tasks : HlLoadRaises(k)
    \/ \E k \in DOMAIN hl_tasks, status \in {"success", "error"} :
           HlLoadReturns(k, status)
    \/ \E k \in DOMAIN hl_tasks : HlEmbedRaises(k)
    \/ \E k \in DOMAIN hl_tasks : HlTopicEmbedReturns(k)
    \/ \E k \in DOMAIN hl_tasks : HlMsgEmbedReturns(k)

SpecSession == InitSession /\ [][NextSession]_vars

\* the same session seen from the turn: the commands and the Context
\* Filter run, the highlight tasks not yet scheduled
NextTurn ==
    \/ \E args \in SessionFilterCalls : SetFilter(args)
    \/ \E args \in SessionModeCalls \cup
                     {[NoArgs EXCEPT !.p = EnabledDict(FALSE)]} :
           SetSimilarityMode(args)
    \/ \E chat_id \in {"", "chat1"} : ContextStart(chat_messages, chat_id)
    \/ LoadChatRaises
    \/ \E status \in {"success", "error"} : LoadChatReturns(status)
    \/ EmbedRaises
    \/ TopicEmbedReturns
    \/ MsgEmbedReturns

SpecTurn == InitSession /\ [][NextTurn]_vars

\* a turn whose ctx.history holds the stored transcript and the message of
\* the turn itself, which the store does not hold until the turn is over
TurnHistory(stored) == Append(stored, [id |-> "m4", content |-> "b"])

\* the session while such a turn runs: set_filter calls, their highlight
\* tasks over the stored transcript and the Context Filter run over the
\* turn's history, interleaved at their awaits
NextOverlap ==
    \/ \E args \in SessionFilterCalls : SetFilter(args)
    \/ ContextStart(TurnHistory(chat_messages), "chat1")
    \/ LoadChatRaises
    \/ \E status \in {"success", "error"} : LoadChatReturns(status)
    \/ EmbedRaises
    \/ TopicEmbedReturns
    \/ MsgEmbedReturns
    \/ \E k \in DOMAIN hl_tasks : HlLoadRaises(k)
    \/ \E k \in DOMAIN hl_tasks, status \in {"success", "error"} :
           HlLoadReturns(k, status)
    \/ \E k \in DOMAIN hl_tasks : HlEmbedRaises(k)
    \/ \E k \in DOMAIN hl_tasks : HlTopicEmbedReturns(k)
    \/ \E k \in DOMAIN hl_tasks : HlMsgEmbedReturns(k)

SpecOverlap == InitSession /\ [][NextOverlap]_vars

\* the chats a turn can belong to; the plugin has learnt "chat1" from the
\* last extraction that saved (current_chat_id)
ChatIds == {"chat1", "chat2"}

\* the plugin over several chats: the commands carry no chat id, and the
\* hook takes the chat of the turn from ctx.chat_id. The store, read by
\* chat id, is the store of the turn's chat.
NextChats ==
    \/ \E args \in SessionFilterCalls : SetFilter(args)
    \/ \E args \in SessionModeCalls : SetSimilarityMode(args)
    \/ \E chat_id \in ChatIds : ContextStart(chat_messages, chat_id)
    \/ LoadChatRaises
    \/ \E status \in {"success", "error"} : LoadChatReturns(status)
    \/ EmbedRaises
    \/ TopicEmbedReturns
    \/ MsgEmbedReturns

SpecChats == InitSession /\ [][NextChats]_vars

(***************************************************************************)
(* The panel (panel.html): its script state, the requests it sends with    *)
(* window.request('execute_command', ...) and the backend events its       *)
(* listeners handle. Requests reach the backend, and events the panel, in  *)
(* the order they were sent.                                               *)
(***************************************************************************)
\* scTopics.filter(function(t){ return !t.sticky; }), the bubbles
RegularLabels(topics) ==
    {topics[i].label : i \in {j \in DOMAIN topics : ~topics[j].sticky}}

\* if (scActive.has(label)) scActive.delete(label); else scActive.add(label)
ToggleLabel(active, label) ==
    LET Other(l) == l # label
    IN  IF label \in Range(active)
        THEN SelectSeq(active, Other)
        ELSE Append(active, label)

\* the text scRender writes into #sc-status
ScStatus(p) ==
    IF RegularLabels(p.scTopics) = {}
    THEN "All messages in context"
    ELSE IF p.scSimilarity /\ p.scActive # <<>>
         THEN "topic(s) selected"
         ELSE "All messages in context"

SetFilterRequest(topics) ==
    [cmd |-> "set_filter", args |-> [NoArgs EXCEPT !.topics = Member(topics)]]
SetModeRequest(enabled) ==
    [cmd |-> "set_similarity_mode",
     args |-> [NoArgs EXCEPT !.enabled = IF enabled THEN "true" ELSE "false"]]

\* what the panel's script leaves alone: the backend
panel_side == <<plugin_vars, provider_silent, chat_topics, cache_file,
                run_vars, api_vars, ext_vars, cmd_vars, gt_call, cos>>

\* window.scToggleTopic(label): a click on a bubble. With the similarity
\* mode off the function returns at once.
ScToggleTopic(label) ==
    /\ Len(panel.requests) < MaxCalls
    /\ label \in RegularLabels(panel.scTopics)
    /\ panel.scSimilarity
    /\ LET active == ToggleLabel(panel.scActive, label)
       IN  panel' = [panel EXCEPT
               !.scActive = active,
               !.requests = Append(@, SetFilterRequest(active))]
    /\ UNCHANGED panel_side

\* window.scToggleSimilarity(enabled): the checkbox changed
ScToggleSimilarity(enabled) ==
    /\ Len(panel.requests) + (IF enabled THEN 1 ELSE 2) <= MaxCalls
    /\ panel' = [panel EXCEPT
           !.scSimilarity = enabled,
           !.scActive = IF enabled THEN @ ELSE <<>>,
           !.requests =
               IF enabled
               THEN Append(@, SetModeRequest(TRUE))
               ELSE @ \o <<SetFilterRequest(<<>>), SetModeRequest(FALSE)>>]
    /\ UNCHANGED panel_side

\* the listeners: topics_updated replaces scTopics and clears scActive
\* (d.topics is an array, and every array is truthy); filter_changed is
\* relayed to the chat view and leaves the panel as it is
PanelReceives ==
    /\ panel.seen < Len(events)
    /\ LET e == events[panel.seen + 1]
       IN  panel' =
               IF e.name = "smart_context.topics_updated"
               THEN [panel EXCEPT !.seen = @ + 1, !.scTopics = e.topics,
                                  !.scActive = <<>>]
               ELSE [panel EXCEPT !.seen = @ + 1]
    /\ UNCHANGED panel_side

\* the backend runs the next request of the panel
Delivers(cmd) ==
    /\ last_call.n < Len(panel.requests)
    /\ panel.requests[last_call.n + 1].cmd = cmd
BackendSetFilter ==
    Delivers("set_filter") /\ SetFilter(panel.requests[last_call.n + 1].args)
BackendSetSimilarityMode ==
    /\ Delivers("set_similarity_mode")
    /\ SetSimilarityMode(panel.requests[last_call.n + 1].args)

\* the completions of the extractions in a panel session: topic A, then
\* possibly only topic B
PanelCompletions == {<<DocLine(DocAOne)>>, <<FenceJson, DocLine(DocBNone)>>}

InitPanel ==
    /\ active_topics = {}
    /\ embedding_search = TRUE
    /\ similarity_threshold = <<2, 5>>
    /\ chat_topics = <<>>
    /\ cache_file = MissingFile
    /\ provider_silent = FALSE
    /\ RunIdle
    /\ ApiIdle
    /\ chat_messages = <<TurnMessage(1)>>
    /\ ExtIdle
    /\ current_chat_id = ""
    /\ CmdIdle
    /\ AuxIdle

NextPanel ==
    \/ \E label \in Labels : ScToggleTopic(label)
    \/ ScToggleSimilarity(~panel.scSimilarity)
    \/ PanelReceives
    \/ BackendSetFilter
    \/ BackendSetSimilarityMode
    \/ PipelineOutput("text", "chat1")
    \/ \E t \in Tasks : ExtractLoadReturns(t, "success")
    \/ \E t \in Tasks, content \in PanelCompletions :
           CompleteReturns(t, content)
    \/ \E t \in Tasks : SaveChatWrites(t)
    \/ \E t \in Tasks : SaveChatReturns(t)

SpecPanel == InitPanel /\ [][NextPanel]_vars

(***************************************************************************)
(* Properties of the Context Filter (specification Spec)                   *)
(***************************************************************************)
\* the score of m, max cosine over the topic embeddings, is >= threshold
Clears(m) ==
    /\ m.id \in DOMAIN cached
    /\ \E l \in DOMAIN topic_embeddings :
           FracGE(_cosine_similarity(cached[m.id], topic_embeddings[l]),
                  similarity_threshold)

\* the score of m is exactly the threshold
ScoresThreshold(m) ==
    /\ Clears(m)
    /\ \A l \in DOMAIN topic_embeddings :
           FracGE(similarity_threshold,
                  _cosine_similarity(cached[m.id], topic_embeddings[l]))

\* out is a subsequence of in: an order-preserving injection of positions
IsSubsequence(out, in) ==
    \E f \in [DOMAIN out -> DOMAIN in] :
        /\ \A i \in DOMAIN out : out[i] = in[f[i]]
        /\ \A i, j \in DOMAIN out : i < j => f[i] < f[j]

\* C1: if active_topics is empty or embedding_search is false when the
\* hook runs, the history passed downstream is the input history.
C1_InactiveIsIdentity ==
    (pc = "done" /\ (active_topics = {} \/ ~embedding_search))
        => ctx_history = hist_in

C1_Witness ==
    /\ pc = "done"
    /\ ~embedding_search
    /\ active_topics = {"A"}
    /\ ctx_chat_id = "chat1"
    /\ Len(hist_in) = 2
    /\ hist_in[1].content = "c"
    /\ hist_in[2].content = "a"
    /\ ctx_history = hist_in

\* C2: when the filter ran and some non-sticky message scores at or above
\* the threshold, the output is exactly the input messages that are sticky
\* or score >= threshold (a score equal to the threshold is included).
C2_ExactlyStickyOrClearing ==
    (/\ pc = "done"
     /\ scored
     /\ \E i \in DOMAIN hist_in :
            hist_in[i].id \notin sticky_ids /\ Clears(hist_in[i]))
        => LET Wanted(m) == m.id \in sticky_ids \/ Clears(m)
           IN  ctx_history = SelectSeq(hist_in, Wanted)

C2_Witness ==
    /\ pc = "done"
    /\ scored
    /\ \E i, j \in DOMAIN hist_in :
           /\ hist_in[i].id \notin sticky_ids
           /\ ScoresThreshold(hist_in[i])
           /\ hist_in[i] \in Range(ctx_history)
           /\ hist_in[j] \notin Range(ctx_history)

\* C3: if no non-sticky message of the history scores at or above the
\* threshold, the output of the filter is the full input history.
C3_FallbackToFullHistory ==
    (/\ pc = "done"
     /\ scored
     /\ \A i \in DOMAIN hist_in :
            hist_in[i].id \in sticky_ids \/ ~Clears(hist_in[i]))
        => ctx_history = hist_in

C3_Witness ==
    /\ pc = "done"
    /\ scored
    /\ Len(hist_in) = 2
    /\ ctx_history = hist_in
    /\ \E i, j \in DOMAIN hist_in :
           /\ hist_in[i].id \in sticky_ids
           /\ hist_in[j].id \notin sticky_ids
           /\ ~Clears(hist_in[j])

\* C4: every input message whose id is in the persisted sticky topic's
\* message_ids is present in the output of the hook.
C4_PersistedStickyKept ==
    pc = "done"
        => \A i \in DOMAIN hist_in :
               hist_in[i].id \in StickyIdsOf(chat_topics)
                   => hist_in[i] \in Range(ctx_history)

\* C5: the output is a subsequence of the input history: only input
\* messages, in input order, none more often than in the input.
C5_OutputIsSubsequence == IsSubsequence(ctx_history, hist_in)

C5_Witness ==
    /\ pc = "done"
    /\ scored
    /\ Len(hist_in) = 2
    /\ ctx_history = <<hist_in[2]>>

\* C6: if the chat-store load or an embedding call fails during the run,
\* the hook returns and the history passed downstream is the input history.
C6_FailureKeepsFullHistory ==
    (pc = "done" /\ (load_status \in {"raise", "error"} \/ embed_failed))
        => ctx_history = hist_in

\* C7: every started run of the hook eventually returns.
C7_RunEventuallyReturns ==
    (pc \in {"await_load", "await_topic_embed", "await_msg_embed"})
        ~> (pc = "done")

(***************************************************************************)
(* Properties of the EmbeddingCache (specification SpecCache)              *)
(***************************************************************************)
OwnPuts(i) == {k \in DOMAIN put_log : put_log[k].inst = i}

\* C8: get(id, content) after put(id, content, vec), with no later put to
\* the same key, returns vec; get(id, content2) with a fingerprint other
\* than content's is absent when only content was put for that id.
C8_GetAfterPut ==
    /\ \A k \in OwnPuts(last_get.inst) :
           (/\ put_log[k].id = last_get.id
            /\ put_log[k].content = last_get.content
            /\ \A k2 \in OwnPuts(last_get.inst) :
                   (/\ k2 > k
                    /\ put_log[k2].id = last_get.id
                    /\ Fingerprint(put_log[k2].content)
                           = Fingerprint(last_get.content))
                       => FALSE)
               => last_get.result = put_log[k].vec
    /\ \A k \in DOMAIN put_log :
           (/\ last_get.inst # ""
            /\ put_log[k].id = last_get.id
            /\ \A k2 \in DOMAIN put_log :
                   put_log[k2].id = last_get.id
                       => put_log[k2].content = put_log[k].content
            /\ Fingerprint(last_get.content)
                   # Fingerprint(put_log[k].content))
               => last_get.result = None

C8_Witness ==
    /\ Len(put_log) = 2
    /\ put_log[1].inst = last_get.inst
    /\ put_log[2].inst = last_get.inst
    /\ put_log[1].id = last_get.id
    /\ put_log[2].id = last_get.id
    /\ put_log[1].content = "b"
    /\ put_log[2].content = last_get.content
    /\ last_get.content = "a"
    /\ last_get.result = put_log[2].vec

\* C9: set() is write-through: once it has returned, the chat's document
\* holds the entry, and a cache instance opened afterwards returns the
\* vector for get(id, content).
C9_WriteThrough ==
    put_log # <<>>
        => LET p == put_log[Len(put_log)]
               k == <<p.id, Fingerprint(p.content)>>
           IN  /\ cache_file.kind = "json"
               /\ k \in DOMAIN cache_file.data
               /\ cache_file.data[k] = p.vec
               /\ \A j \in Instances :
                      (/\ inst[j].state = "open"
                       /\ inst[j].opened_at = Len(put_log)
                       /\ last_get.inst = j
                       /\ last_get.id = p.id
                       /\ last_get.content = p.content)
                          => last_get.result = p.vec

C9_Witness ==
    /\ put_log # <<>>
    /\ LET p == put_log[Len(put_log)]
       IN  /\ last_get.inst \in Instances \ {p.inst}
           /\ inst[last_get.inst].opened_at = Len(put_log)
           /\ last_get.id = p.id
           /\ last_get.content = p.content
           /\ last_get.result = p.vec

WriteStep(t) == runs[t].pc = "await_save" /\ runs'[t].pc = "saved"

\* the JSON document of a completion text, if it has one
DocOf(content) ==
    IF \E i \in DOMAIN content : content[i].kind = "doc"
    THEN content[CHOOSE i \in DOMAIN content : content[i].kind = "doc"].doc
    ELSE NoDoc

\* the ids the completion output flagged
Flagged(content) ==
    IF DocOf(content).sticky_message_ids.present
    THEN DocOf(content).sticky_message_ids.value
    ELSE <<>>

\* the text is one JSON object, bare or inside a fence whose closing line
\* may be missing
Parseable(content) ==
    /\ DocOf(content).json = "object"
    /\ \/ Len(content) = 1
       \/ /\ Len(content) = 2
          /\ content[1].kind \in {"fence", "fence_json"}
       \/ /\ Len(content) = 3
          /\ content[1].kind \in {"fence", "fence_json"}
          /\ content[3].kind = "fence"

StickyEntries(topics) == {i \in DOMAIN topics : topics[i].sticky}

\* C11: the save of an extraction leaves the persisted messages as the
\* chat store held them right before the save.
C11_WriteKeepsTranscript ==
    [][\A t \in Tasks : WriteStep(t) => chat_messages' = chat_messages]_vars

\* C12: the save of an extraction makes the persisted Topic Set exactly the
\* topic list that extraction produced; nothing of the previous Topic Set
\* survives unless the new list contains it.
C12_TopicSetReplaced ==
    [][\A t \in Tasks :
           WriteStep(t) =>
               /\ chat_topics' = runs[t].topics
               /\ Len(chat_topics') =
                      Len(GetOr(DocOf(runs[t].response).topics))
                      + (IF Flagged(runs[t].response) # <<>>
                         THEN 1 ELSE 0)]_vars

C12_Witness ==
    \E t1, t2 \in Tasks :
        /\ runs[t1].outcome = "saved"
        /\ runs[t1].topics = <<Topic("A", 2), StickyTopic(<<"m1">>)>>
        /\ runs[t2].pc = "saved"
        /\ runs[t2].seq > runs[t1].seq
        /\ runs[t2].topics = <<Topic("B", 1)>>
        /\ chat_topics = <<Topic("B", 1)>>

\* C13: the extracted topic list has a sticky entry iff the completion
\* output flagged at least one id; its message_ids is the flagged list and
\* its count the number of flagged ids.
C13_StickyIffFlagged ==
    \A t \in Tasks :
        runs[t].pc \in {"await_save", "saved"} \/ runs[t].outcome = "saved"
            => LET ids == Flagged(runs[t].response)
                   st == StickyEntries(runs[t].topics)
               IN  /\ (st # {}) <=> (ids # <<>>)
                   /\ Cardinality(st) <= 1
                   /\ \A i \in st :
                          /\ runs[t].topics[i].message_ids = ids
                          /\ runs[t].topics[i].count = Len(ids)

C13_Witness ==
    \E t \in Tasks :
        /\ runs[t].pc = "await_save"
        /\ Flagged(runs[t].response) = <<"m2", "m1">>
        /\ Len(runs[t].topics) = 3
        /\ runs[t].topics[3].sticky
        /\ runs[t].topics[3].message_ids = <<"m2", "m1">>
        /\ runs[t].topics[3].count = 2

C15_FailureLeavesTopicSet ==
    [][\A t \in Tasks :
           (/\ runs[t].pc = "await_complete"
            /\ runs'[t].pc # "await_complete"
            /\ ~Parseable(runs'[t].response))
               => /\ runs'[t].pc = "done"
                  /\ runs'[t].outcome = "failed"
                  /\ chat_topics' = chat_topics
                  /\ chat_messages' = chat_messages
                  /\ events' = events]_vars

C15_Witness ==
    \E t \in Tasks :
        /\ runs[t].pc = "done"
        /\ runs[t].outcome = "failed"
        /\ runs[t].response = <<DocLine(DocBNone), Fence>>
        /\ chat_topics = <<Topic("A", 2), StickyTopic(<<"m1">>)>>
        /\ events = <<>>

\* C16: no extraction replaces a non-empty persisted Topic Set by an empty
\* one.
C16_NeverClearsTopicSet ==
    [][chat_topics # <<>> => chat_topics' # <<>>]_vars

\* C17: whenever an extraction task is in flight, whatever it is waiting
\* for, the hook that started it has returned.
C17_HookDoesNotWait ==
    \A t \in Tasks :
        runs[t].pc \in {"await_load", "await_complete", "await_save", "saved"}
            => out_pc = "returned"

C17_Witness ==
    /\ out_pc = "returned"
    /\ started = 1
    /\ \E t \in Tasks : runs[t].pc = "await_complete"

\* C18: of two extractions that both saved, the persisted Topic Set is the
\* result of the one started later, in whichever order the saves landed.
C18_NewerRunWins ==
    \A t1, t2 \in Tasks :
        (/\ runs[t1].outcome = "saved"
         /\ runs[t2].outcome = "saved"
         /\ runs[t1].seq < runs[t2].seq)
            => chat_topics = runs[t2].topics

(***************************************************************************)
(* Properties of the commands (specification SpecCmd)                      *)
(***************************************************************************)
\* the step is a call of the command cmd
CallStep(cmd) == last_call'.n = last_call.n + 1 /\ last_call'.cmd = cmd

\* the topic list T a set_filter call carries, wherever the caller put it
RequestedTopics(args) ==
    IF args.topics.present THEN args.topics.value
    ELSE IF args.p.has THEN args.p.topics
    ELSE IF args.params.has THEN args.params.topics
    ELSE <<>>

\* C19: set_filter(T) makes active_topics exactly the set of labels in T,
\* whatever it was before, returns that set, and emits exactly one
\* filter_changed event carrying it.
C19_SetFilterReplaces ==
    [][CallStep("set_filter") =>
           LET T == {RequestedTopics(last_call'.args)[i] :
                        i \in DOMAIN RequestedTopics(last_call'.args)}
           IN  /\ active_topics' = T
               /\ last_call'.status = "success"
               /\ last_call'.active_topics = T
               /\ Len(events') = Len(events) + 1
               /\ SubSeq(events', 1, Len(events)) = events
               /\ events'[Len(events')].name = "smart_context.filter_changed"
               /\ events'[Len(events')].active_topics = T]_vars

C19_Witness ==
    /\ last_call.n = 2
    /\ last_call.cmd = "set_filter"
    /\ last_call.args.p = TopicsDict(<<"A", "A">>)
    /\ Len(events) = 2
    /\ events[1].active_topics = {"A", "B"}
    /\ events[2].active_topics = {"A"}
    /\ active_topics = {"A"}
    /\ last_call.active_topics = {"A"}

\* C20: set_filter changes neither embedding_search nor
\* similarity_threshold; set_filter([]) leaves an enabled mode enabled.
C20_SetFilterKeepsMode ==
    [][CallStep("set_filter") =>
           /\ embedding_search' = embedding_search
           /\ similarity_threshold' = similarity_threshold]_vars

C20_Witness ==
    /\ last_call.n = 2
    /\ last_call.cmd = "set_filter"
    /\ last_call.args.topics = Member(<<>>)
    /\ Len(events) = 2
    /\ events[1].active_topics = {"A"}
    /\ events[2].active_topics = {}
    /\ active_topics = {}
    /\ embedding_search
    /\ Len(hl_tasks) = 1

C24_EveryChangeRecomputes ==
    [][(CallStep("set_filter") \/ CallStep("set_similarity_mode"))
           => Len(hl_tasks') = Len(hl_tasks) + 1]_vars

(***************************************************************************)
(* Properties of the extraction's event (specification SpecExtract)        *)
(***************************************************************************)
\* C30: an event is emitted only by an extraction whose save the chat store
\* has carried out, and it is topics_updated with the topic list that was
\* written and the number of messages the extraction loaded; a save is
\* written only after a completion, and a completion is asked for only
\* after a load that succeeded and returned messages: a load that fails,
\* or returns none, ends the extraction with no write and no event.
C30_EventAfterSave ==
    [][/\ events' # events
          => \E t \in Tasks :
                 /\ runs[t].pc = "saved"
                 /\ runs'[t].pc = "done"
                 /\ Len(events') = Len(events) + 1
                 /\ SubSeq(events', 1, Len(events)) = events
                 /\ LET e == events'[Len(events')]
                    IN  /\ e.name = "smart_context.topics_updated"
                        /\ e.topics = runs[t].data.topics
                        /\ e.total_messages = Len(runs[t].data.messages)
       /\ \A t \in Tasks :
              /\ (runs[t].pc # "saved" /\ runs'[t].pc = "saved")
                 => /\ runs[t].pc = "await_save"
                    /\ chat_topics' = runs[t].data.topics
              /\ (runs[t].pc # "await_save" /\ runs'[t].pc = "await_save")
                 => runs[t].pc = "await_complete"
              /\ (/\ runs[t].pc # "await_complete"
                  /\ runs'[t].pc = "await_complete")
                 => /\ runs[t].pc = "await_load"
                    /\ chat_messages # <<>>
                    /\ runs'[t].data.messages = chat_messages
              /\ (/\ runs[t].pc = "await_load"
                  /\ runs'[t].pc # "await_load"
                  /\ runs'[t].pc # "await_complete")
                 => /\ runs'[t].pc = "done"
                    /\ runs'[t].outcome \in {"failed", "skipped"}
                    /\ UNCHANGED <<chat_topics, chat_messages, events>>
       /\ (chat_topics' # chat_topics)
          => \E t \in Tasks : runs[t].pc = "await_save"]_vars

C30_Witness ==
    /\ Len(events) = 1
    /\ events[1].name = "smart_context.topics_updated"
    /\ events[1].topics = chat_topics
    /\ Len(events[1].topics) = 3
    /\ events[1].total_messages = 2
    /\ \E t \in Tasks : runs[t].outcome = "skipped"

(***************************************************************************)
(* Properties of the configuration and of the similarity                   *)
(* (specifications SpecConfig and SpecCosine)                              *)
(***************************************************************************)
\* 0 <= t <= 1
InRange(t) == FracGE(t, <<0, 1>>) /\ FracGE(<<1, 1>>, t)

\* p = q on fractions
FracEq(p, q) == p[1] * q[2] = q[1] * p[2]

\* C26: no Context Filter run scores messages against a threshold outside
\* [0, 1]: such a configuration never gets as far as a running plugin.
C26_OutOfRangeRejected == scored => InRange(similarity_threshold)

C27_WitnessPair ==
    /\ cos.done
    /\ cos.a = <<3, 4>>
    /\ cos.b = <<-4, -3>>
    /\ cos.ab = <<-24, 25>>
    /\ cos.ba = <<-24, 25>>
    /\ cos.aa = <<25, 25>>
    /\ ~cos.included

\* C32: whenever the mode is disabled no topic is selected.
C32_DisabledMeansNoSelection == ~embedding_search => active_topics = {}

(***************************************************************************)
(* Properties of FilterState over a turn (specification SpecTurn)          *)
(***************************************************************************)
\* FilterState is Active: the mode is enabled and a topic is selected
Active == embedding_search /\ active_topics # {}

\* the step starts a Context Filter run
RunStarts == pc = "idle" /\ pc' # "idle"

\* C21: set_similarity_mode(false) on a non-empty selection disables the
\* mode, empties the selection and emits filter_changed with no topic; the
\* mode comes back only by a set_similarity_mode call and a selection only
\* by a set_filter call, and a Context Filter run started while either is
\* missing returns at once and leaves the whole history as it got it.
C21_DisableClearsAndPassesThrough ==
    [][/\ (/\ CallStep("set_similarity_mode")
           /\ last_call'.args.enabled = "false"
           /\ active_topics # {})
          => /\ ~embedding_search'
             /\ active_topics' = {}
             /\ last_call'.status = "success"
             /\ ~last_call'.embedding_search
             /\ Len(events') = Len(events) + 1
             /\ events'[Len(events')].name = "smart_context.filter_changed"
             /\ events'[Len(events')].active_topics = {}
       /\ (~embedding_search /\ embedding_search')
          => CallStep("set_similarity_mode")
       /\ (active_topics = {} /\ active_topics' # {})
          => CallStep("set_filter")
       /\ (RunStarts /\ ~Active)
          => (pc' = "done" /\ ctx_history' = hist_in')
       /\ (pc = "done" /\ load_status = "none")
          => (pc' = "done" /\ load_status' = "none"
              /\ ctx_history' = ctx_history /\ hist_in' = hist_in)]_vars

C21_Witness ==
    /\ last_call.n = 2
    /\ last_call.cmd = "set_similarity_mode"
    /\ last_call.args.enabled = "false"
    /\ Len(events) = 2
    /\ events[1].active_topics = {"B"}
    /\ events[2].active_topics = {}
    /\ ~embedding_search
    /\ active_topics = {}
    /\ pc = "done"
    /\ load_status = "none"
    /\ Len(hist_in) = 3
    /\ ctx_history = hist_in

\* C22: FilterState starts Inactive; set_filter with a non-empty list while
\* the mode is enabled makes it Active; set_filter([]) and
\* set_similarity_mode(false) make it Inactive whatever it was; and only a
\* Context Filter run that started while it was Active gets past the gate,
\* so only such a run changes the history.
C22_TwoStateMachine ==
    /\ [](last_call.n = 0 => ~Active)
    /\ [][
          /\ (/\ CallStep("set_filter")
              /\ RequestedTopics(last_call'.args) # <<>>
              /\ embedding_search)
             => Active'
          /\ (/\ CallStep("set_filter")
              /\ RequestedTopics(last_call'.args) = <<>>)
             => ~Active'
          /\ (/\ CallStep("set_similarity_mode")
              /\ last_call'.args.enabled = "false")
             => ~Active'
          /\ (RunStarts /\ pc' # "done") => Active
          /\ (pc # "idle" /\ ctx_history' # ctx_history)
             => (pc \in {"await_topic_embed", "await_msg_embed"}
                 /\ load_status # "none")
          /\ (load_status = "none" /\ load_status' # "none")
             => pc = "await_load"
          /\ (pc # "await_load" /\ pc' = "await_load")
             => (RunStarts /\ Active)
       ]_vars

C22_Witness ==
    /\ last_call.n = 2
    /\ last_call.cmd = "set_filter"
    /\ last_call.args.topics = Member(<<>>)
    /\ events[1].active_topics = {"A"}
    /\ ~Active
    /\ embedding_search
    /\ pc = "done"
    /\ scored
    /\ Len(ctx_history) < Len(hist_in)

\* C33: a Context Filter run that ends while FilterState is Inactive (the
\* selection was cleared or the mode disabled, possibly while the run was
\* waiting for the provider) ends with the history it was given.
C33_ClearedFilterDoesNotNarrow ==
    [][(pc # "done" /\ pc' = "done" /\ ~Active')
           => ctx_history' = hist_in']_vars

(***************************************************************************)
(* Properties of the highlight tasks and the Context Filter run           *)
(* (specification SpecSession)                                             *)
(***************************************************************************)
\* the inclusion rule of the Context Filter, over the locals of highlight
\* task k: the message is sticky, or it has an embedding and some topic
\* embedding scores at least the threshold against it
HlWanted(k, m) ==
    \/ m.id \in hl_tasks[k].sticky
    \/ /\ m.id \in DOMAIN hl_tasks[k].cached
       /\ \E l \in DOMAIN hl_tasks[k].temb :
              FracGE(_cosine_similarity(hl_tasks[k].cached[m.id],
                                        hl_tasks[k].temb[l]),
                     similarity_threshold)

\* the Context Filter run and highlight task k worked on the same inputs
SameInputs(k) ==
    /\ scored
    /\ hist_in = hl_tasks[k].messages
    /\ sticky_ids = hl_tasks[k].sticky
    /\ topic_embeddings = hl_tasks[k].temb
    /\ cached = hl_tasks[k].cached

\* C25: a highlight task that emits sends, in highlight_applied, the ids of
\* the stored messages that satisfy the inclusion rule, in transcript
\* order; and when the Context Filter run had the same messages, sticky
\* ids, topic embeddings and message embeddings, these are the ids the
\* run included before its fallback rule.
C25_HighlightMatchesFilter ==
    \A k \in DOMAIN hl_tasks :
        hl_tasks[k].outcome = "emitted" =>
            LET Wanted(m) == HlWanted(k, m)
                ids == Ids(SelectSeq(hl_tasks[k].messages, Wanted))
            IN  /\ \E i \in DOMAIN events :
                       /\ events[i].name = "smart_context.highlight_applied"
                       /\ events[i].message_ids = ids
                /\ \A i \in DOMAIN events :
                       events[i].name = "smart_context.highlight_applied"
                       => \E j \in DOMAIN hl_tasks :
                              /\ hl_tasks[j].outcome = "emitted"
                              /\ events[i].message_ids = hl_tasks[j].included
                /\ hl_tasks[k].included = ids
                /\ SameInputs(k) => included = ids

C25_Witness ==
    /\ Len(hl_tasks) = 1
    /\ hl_tasks[1].outcome = "emitted"
    /\ SameInputs(1)
    /\ sticky_ids = {"m2", "m3"}
    /\ DOMAIN topic_embeddings = {"B"}
    /\ similarity_threshold = <<1, 1>>
    /\ included = <<"m2", "m3">>
    /\ ctx_history = hist_in
    /\ events[Len(events)].name = "smart_context.highlight_applied"
    /\ events[Len(events)].message_ids = <<"m2", "m3">>

\* the keys the cache file holds
FileKeys(file) == IF file.kind = "json" THEN DOMAIN file.data ELSE {}

\* the messages, in order, with no entry in file for (id, content)
Unembedded(messages, file) ==
    LET NoEntry(m) == _key(m.id, m.content) \notin FileKeys(file)
    IN  SelectSeq(messages, NoEntry)

\* every message of need has its provider embedding in file
AllStored(need, file) ==
    \A i \in DOMAIN need :
        /\ _key(need[i].id, need[i].content) \in FileKeys(file)
        /\ file.data[_key(need[i].id, need[i].content)]
               = Embedding(need[i].content)

\* C28: when a run (the Context Filter's, or a highlight task's) has its
\* topic embeddings and looks its messages up, the messages it goes on to
\* embed are exactly those with no entry in the cache file for their id
\* and content, in order; it makes a message-embedding call only if there
\* is one, so a run that finds every message cached by an earlier run
\* makes none; and when the embeddings arrive each one is in the file.
C28_EmbedOnlyOnMiss ==
    [][/\ (/\ pc = "await_topic_embed"
           /\ pc' # pc
           /\ ~embed_failed')
          => /\ need_embed' = Unembedded(ctx_history, cache_file)
             /\ (pc' = "await_msg_embed") = (need_embed' # <<>>)
             /\ cache_file' = cache_file
       /\ (pc # "await_msg_embed" /\ pc' = "await_msg_embed")
          => pc = "await_topic_embed"
       /\ (pc = "await_msg_embed" /\ pc' # pc /\ ~embed_failed')
          => /\ need_embed' = need_embed
             /\ AllStored(need_embed, cache_file')
       /\ \A k \in DOMAIN hl_tasks :
              LET old == hl_tasks[k]
                  new == hl_tasks'[k]
              IN  /\ (/\ old.pc = "await_topic_embed"
                      /\ new.pc # old.pc
                      /\ new.outcome # "embed_raised")
                     => /\ new.need_embed
                              = Unembedded(old.messages, cache_file)
                        /\ (new.pc = "await_msg_embed")
                              = (new.need_embed # <<>>)
                        /\ cache_file' = cache_file
                  /\ (old.pc # "await_msg_embed"
                      /\ new.pc = "await_msg_embed")
                     => old.pc = "await_topic_embed"
                  /\ (/\ old.pc = "await_msg_embed"
                      /\ new.pc # old.pc
                      /\ new.outcome # "embed_raised")
                     => /\ new.need_embed = old.need_embed
                        /\ AllStored(old.need_embed, cache_file')]_vars

C28_Witness ==
    /\ cache_file.kind = "json"
    /\ pc = "done"
    /\ scored
    /\ Len(need_embed) = 3
    /\ Len(hl_tasks) = 1
    /\ hl_tasks[1].outcome = "emitted"
    /\ hl_tasks[1].messages = hist_in
    /\ hl_tasks[1].need_embed = <<>>
    /\ DOMAIN hl_tasks[1].cached = {"m1", "m2", "m3"}

\* C29: a run that gets past its load sends the provider exactly the
\* labels that are active at that moment, whatever earlier runs have
\* embedded, and uses the vectors that call returns; the cache file is not
\* written by these steps and never holds an entry whose id is a label.
C29_TopicEmbeddingsNotCached ==
    [][/\ (pc = "await_load" /\ pc' = "await_topic_embed")
          => (embed_req' = active_topics /\ cache_file' = cache_file)
       /\ (pc = "await_topic_embed" /\ pc' # pc /\ ~embed_failed')
          => topic_embeddings' = [l \in embed_req |-> Embedding(l)]
       /\ \A k \in DOMAIN hl_tasks :
              LET old == hl_tasks[k]
                  new == hl_tasks'[k]
              IN  /\ (old.pc = "created" /\ new.pc = "await_topic_embed")
                     => /\ new.embed_req = active_topics
                        /\ cache_file' = cache_file
                  /\ (/\ old.pc = "await_topic_embed"
                      /\ new.pc # old.pc
                      /\ new.outcome # "embed_raised")
                     => new.temb = [l \in old.embed_req |-> Embedding(l)]
       /\ \A key \in FileKeys(cache_file') : key[1] \notin Labels]_vars

C29_Witness ==
    /\ pc = "done"
    /\ scored
    /\ embed_req = {"A"}
    /\ Len(hl_tasks) = 2
    /\ \A k \in {1, 2} :
           /\ hl_tasks[k].outcome = "emitted"
           /\ hl_tasks[k].embed_req = {"A"}
           /\ DOMAIN hl_tasks[k].temb = {"A"}
    /\ \A key \in FileKeys(cache_file) : key[1] \in {"m1", "m2", "m3"}
    /\ Cardinality(FileKeys(cache_file)) = 3

\* the step in which highlight task k is the last one to emit
\* highlight_applied: every highlight task has then finished with its event
LastTaskEmits(k) ==
    /\ hl_tasks[k].pc # "done"
    /\ \A j \in DOMAIN hl_tasks' :
           hl_tasks'[j].pc = "done" /\ hl_tasks'[j].outcome = "emitted"

\* C34: when every command so far was a set_filter call that created its
\* highlight task, and the last of these tasks to finish emits
\* highlight_applied, the labels that task embedded and scored against are
\* the selection the last set_filter call stored.
C34_LastHighlightIsFresh ==
    [][\A k \in DOMAIN hl_tasks :
           (LastTaskEmits(k) /\ last_call'.n = Len(hl_tasks'))
               => hl_tasks'[k].embed_req = last_call'.active_topics]_vars

IsEmptyFilterChanged(e) ==
    e.name = "smart_context.filter_changed" /\ e.active_topics = {}
IsFilledFilterChanged(e) ==
    e.name = "smart_context.filter_changed" /\ e.active_topics # {}
IsHighlightApplied(e) == e.name = "smart_context.highlight_applied"

\* C35: in the emitted events, between a filter_changed with no active
\* topic and any later highlight_applied there is a filter_changed with
\* a non-empty selection.
C35_NoHighlightWhileCleared ==
    \A i \in DOMAIN events : \A j \in DOMAIN events :
        (i < j /\ IsEmptyFilterChanged(events[i])
               /\ IsHighlightApplied(events[j]))
            => \E m \in (i + 1)..(j - 1) : IsFilledFilterChanged(events[m])

(***************************************************************************)
(* Properties of overlapping runs (specification SpecOverlap)              *)
(***************************************************************************)
\* the cache keys of the messages a run asked the provider for
PutKeys(need) == {_key(need[i].id, need[i].content) : i \in DOMAIN need}

\* the entries the Context Filter run has put: it got past both awaits
FilterPuts ==
    IF pc = "done" /\ ~embed_failed /\ need_embed # <<>>
    THEN PutKeys(need_embed)
    ELSE {}

\* the entries highlight task k has put
HlPuts(k) ==
    IF /\ hl_tasks[k].outcome \in {"emitted", "scoring_raised"}
       /\ hl_tasks[k].need_embed # <<>>
    THEN PutKeys(hl_tasks[k].need_embed)
    ELSE {}

\* C31: once the Context Filter run and every highlight task have finished,
\* the persisted cache holds every entry that any of them put.
C31_NoEntryLost ==
    (/\ pc = "done"
     /\ \A k \in DOMAIN hl_tasks : hl_tasks[k].pc = "done")
        => /\ FilterPuts \subseteq FileKeys(cache_file)
           /\ \A k \in DOMAIN hl_tasks :
                  HlPuts(k) \subseteq FileKeys(cache_file)

(***************************************************************************)
(* Properties of FilterState over several chats (specification SpecChats)  *)
(***************************************************************************)
\* the chat the last filter_changed event names: the chat the selection
\* was made in, as far as the plugin knows
LastFilterChanged ==
    LET at == {i \in DOMAIN events :
                  events[i].name = "smart_context.filter_changed"}
    IN  events[CHOOSE i \in at : \A j \in at : j <= i]

\* a Context Filter run ends with fewer messages than it was given
RunNarrows ==
    pc # "done" /\ pc' = "done" /\ Len(ctx_history') < Len(hist_in')

\* C38: a Context Filter run that narrows the history of a turn belongs to
\* the chat in which the selection it used was made.
C38_SelectionStaysInItsChat ==
    [][RunNarrows => LastFilterChanged'.chat_id = ctx_chat_id']_vars

(***************************************************************************)
(* Properties of the panel and the backend (specification SpecPanel)       *)
(***************************************************************************)
\* the labels of the Topic Set the chat store holds
PersistedLabels == {chat_topics[i].label : i \in DOMAIN chat_topics}

\* an extraction completes: its save has returned
ExtractionCompletes ==
    \E t \in Tasks : runs[t].pc = "saved" /\ runs'[t].pc = "done"

\* C36: when an extraction completes, every active label is the label of a
\* topic of the persisted Topic Set.
C36_ActiveLabelsArePersisted ==
    [][ExtractionCompletes => active_topics' \subseteq PersistedLabels']_vars

\* every request of the panel has run and every event has been handled
Delivered ==
    last_call.n = Len(panel.requests) /\ panel.seen = Len(events)

\* C37: once every command and every event has been delivered, the panel's
\* selection is the backend's, and a status line that reads "All messages
\* in context" means the Context Filter passes the history through.
C37_PanelAgreesWithBackend ==
    Delivered
        => /\ Range(panel.scActive) = active_topics
           /\ ScStatus(panel) = "All messages in context"
                 => FilterInactive(active_topics, embedding_search)
====
